---- MODULE Spec2Model ----
(***************************************************************************)
(* Model of the 0/1 knapsack solver of src/src/knapsack.c.                 *)
(*                                                                         *)
(* One call of knapsack_solve_status is followed through its phases:       *)
(* reset + validation + dimension checks, workspace allocation, the DP     *)
(* rows (one outer-loop iteration per step), selection of the terminal     *)
(* cell, reconstruction, and release of the workspace; after a successful  *)
(* solve the caller may call knapsack_result_free.  The inputs of the call *)
(* are drawn in Init from bounded sets.                                    *)
(*                                                                         *)
(* C int is modelled as a two's complement integer of IntBits bits and     *)
(* size_t as an unsigned integer of SizeBits bits; indices are 0-based as  *)
(* in the C code.                                                          *)
(***************************************************************************)
EXTENDS Integers, Sequences, FiniteSets, TLC

\* ------------------------------------------------------------------ bounds
MaxItems == 3      \* largest item count of a well-formed instance
MaxCap   == 4      \* largest capacity of a well-formed instance
IntBits  == 16     \* width of the modelled C int
SizeBits == 24     \* width of the modelled size_t
MaxFreeCalls == 2  \* most calls of knapsack_result_free after one solve

\* --------------------------------------------------------- C environment
INT_MAX  == 2^(IntBits - 1) - 1
INT_MIN  == -(2^(IntBits - 1))
SIZE_MAX == 2^SizeBits - 1
\* the null pointer: a buffer of no cells (every buffer the solver obtains
\* has at least one cell: width >= 1, take_size >= 1, selected >= 1)
NULL     == << >>

KNAPSACK_MAX_ITEMS    == 100
KNAPSACK_MAX_CAPACITY == 100000

StatusCodes ==
  { "KNAPSACK_OK", "KNAPSACK_ERR_NULL_RESULT", "KNAPSACK_ERR_INVALID_ITEMS",
    "KNAPSACK_ERR_TOO_MANY_ITEMS", "KNAPSACK_ERR_INVALID_CAPACITY",
    "KNAPSACK_ERR_DIMENSION_OVERFLOW", "KNAPSACK_ERR_INT_OVERFLOW",
    "KNAPSACK_ERR_ALLOC" }

Buffers == {"prev_value", "curr_value", "prev_weight", "curr_weight", "take"}

VARIABLES
  itemsNull,    \* the items pointer is NULL
  items,        \* the item array, a function on 0..count-1 (or shorter)
  count,        \* the count argument
  capacity,     \* the capacity argument
  outNull,      \* the out_result pointer is NULL
  result,       \* *out_result (the caller's struct; meaningless if outNull)
  ws,           \* the knapsack_workspace_t local of knapsack_solve_status
  status,       \* the status local / the returned status
  best_cap,     \* the best_cap local
  row,          \* the outer loop index i of run_dp
  overflowSeen, \* history: some sum prev[c-w]+v formed by run_dp left int
  heap,         \* the allocator: the live blocks and counts of what happened
  held,         \* the block each pointer field of the workspace points to
  freeCalls,    \* history: calls of knapsack_result_free made so far
  pc            \* position in knapsack_solve_status / in the caller

vars == << itemsNull, items, count, capacity, outNull, result, ws, status,
           best_cap, row, overflowSeen, heap, held, freeCalls, pc >>

inputs == << itemsNull, items, count, capacity, outNull >>

\* --------------------------------------------------------- input domains
Item(w, v) == [weight |-> w, value |-> v]

ValidItems ==
  { Item(w, v) : w \in {1, 2, 3}, v \in {0, 1, 2} } \cup { Item(1, INT_MAX) }

BadItems == { Item(-1, 5), Item(0, 7), Item(1, -1), Item(1, INT_MIN) }

\* the items of an instance with malformed items: the malformed ones and two
\* well-formed ones to stand before, between and after them
MixedItems == BadItems \cup { Item(1, 1), Item(2, 2) }

Capacities == (0 .. MaxCap) \cup {-1, KNAPSACK_MAX_CAPACITY + 1}

EmptyResult == [optimal_value |-> 0, selected_count |-> 0, selected_indices |-> NULL]

\* what the caller's struct may hold before the call
PriorResults ==
  { EmptyResult,
    [optimal_value |-> 42, selected_count |-> 2, selected_indices |-> <<7, 9>>] }

EmptyWorkspace ==
  [width |-> 0, take_size |-> 0, prev_value |-> NULL, curr_value |-> NULL,
   prev_weight |-> NULL, curr_weight |-> NULL, take |-> NULL]

\* ------------------------------------------------------------- the heap
\* A block is named after the allocation that obtains it: the five callocs
\* of allocate_workspace and the malloc of reconstruct_solution.
IndexBlock == "indices"

Blocks == Buffers \cup {IndexBlock}

\* a pointer field that holds no block (a null pointer)
NoBlock == "none"

\* the order in which allocate_workspace and free_workspace free the fields
FieldOrder == << "prev_value", "curr_value", "prev_weight", "curr_weight", "take" >>

EmptyHeap ==
  [live |-> {}, ws_obtained |-> 0, ws_released |-> 0, idx_released |-> 0,
   double_free |-> FALSE]

NothingHeld == [b \in Buffers |-> NoBlock]

\* free(p): nothing for a null pointer; a live block is released; freeing a
\* block that is not live is a double free
Free(h, blk) ==
  IF blk = NoBlock THEN h
  ELSE IF blk \notin h.live THEN [h EXCEPT !.double_free = TRUE]
  ELSE IF blk = IndexBlock
       THEN [h EXCEPT !.live = @ \ {blk}, !.idx_released = @ + 1]
       ELSE [h EXCEPT !.live = @ \ {blk}, !.ws_released = @ + 1]

\* free applied to the given pointer fields of the workspace in turn
RECURSIVE FreeFields(_, _, _)
FreeFields(h, hd, fields) ==
  IF fields = << >> THEN h
  ELSE FreeFields(Free(h, hd[Head(fields)]), hd, Tail(fields))

\* the callocs of allocate_workspace; got says which of them succeed
Calloc(h, got) ==
  [h EXCEPT !.live = @ \cup { b \in Buffers : got[b] },
            !.ws_obtained = @ + Cardinality({ b \in Buffers : got[b] })]

\* the frees of the failure branch of allocate_workspace
ReleasePartial(h, hd) == FreeFields(h, hd, FieldOrder)

\* variant of free_workspace_blocks: the decision matrix is not freed
free_workspace_without_take(h, hd) == FreeFields(h, hd, SubSeq(FieldOrder, 1, 4))

\* the frees of free_workspace
free_workspace_blocks(h, hd) == FreeFields(h, hd, FieldOrder)

\* the pointer swaps at the end of an outer iteration of run_dp
SwapHeld(hd) ==
  [hd EXCEPT !["prev_value"] = hd["curr_value"], !["curr_value"] = hd["prev_value"],
             !["prev_weight"] = hd["curr_weight"], !["curr_weight"] = hd["prev_weight"]]

\* ----------------------------------------------------------- the solver

\* variant of reset_result: the struct is left as the caller passed it
reset_result_skipped == result

\* reset_result
reset_result == EmptyResult

\* validate_inputs
validate_inputs(nul, its, cnt, cap) ==
  IF nul \/ cnt = 0 THEN "KNAPSACK_ERR_INVALID_ITEMS"
  ELSE IF cnt > KNAPSACK_MAX_ITEMS THEN "KNAPSACK_ERR_TOO_MANY_ITEMS"
  ELSE IF cap < 0 \/ cap > KNAPSACK_MAX_CAPACITY THEN "KNAPSACK_ERR_INVALID_CAPACITY"
  ELSE IF \E i \in 0 .. cnt - 1 : its[i].weight <= 0 \/ its[i].value < 0
       THEN "KNAPSACK_ERR_INVALID_ITEMS"
  ELSE "KNAPSACK_OK"

\* variant of add_int_no_overflow: the sum is truncated to int unchecked
add_int_wrapping(lhs, rhs) ==
  [ok |-> TRUE, out |-> ((lhs + rhs - INT_MIN) % (2^IntBits)) + INT_MIN]

\* variant of add_int_no_overflow: the upper limit itself is refused
add_int_below_max(lhs, rhs) ==
  LET sum == lhs + rhs IN
    IF sum >= INT_MAX \/ sum < INT_MIN
    THEN [ok |-> FALSE, out |-> 0]
    ELSE [ok |-> TRUE, out |-> sum]

\* add_int_no_overflow: the sum is formed in long long and range-checked;
\* *out is written only on success (the caller initialised it to 0)
add_int_no_overflow(lhs, rhs) ==
  LET sum == lhs + rhs IN
    IF sum > INT_MAX \/ sum < INT_MIN
    THEN [ok |-> FALSE, out |-> 0]
    ELSE [ok |-> TRUE, out |-> sum]

\* (size_t)x for an int x
ToSizeT(x) == IF x >= 0 THEN x ELSE x + SIZE_MAX + 1

\* x - y in size_t arithmetic
SizeSub(x, y) == (x - y) % (SIZE_MAX + 1)

ZeroRow(n) == [c \in 0 .. n - 1 |-> 0]

\* copy_row
copy_row(w) == [w EXCEPT !.curr_value = w.prev_value, !.curr_weight = w.prev_weight]

\* variant of CandidateBase: the candidate is built on the row being written
CandidateBaseCurrentRow(w, cap, wt) == w.curr_value[cap - wt]

\* the cell of the previous row a candidate is built on (run_dp, the
\* first argument of add_int_no_overflow)
CandidateBase(w, cap, wt) == w.prev_value[cap - wt]

\* variant of CandidateWeight: the weight accumulated so far is dropped
CandidateWeightItemOnly(w, cap, wt) == wt

\* candidate_weight of run_dp
CandidateWeight(w, cap, wt) == w.prev_weight[cap - wt] + wt

\* the test of run_dp that decides whether the candidate replaces the cell
Improves(candidate_val, candidate_weight, current_val, current_weight) ==
  \/ candidate_val > current_val
  \/ (candidate_val = current_val /\ candidate_weight < current_weight)

\* the inner loop of run_dp for item it = items[i], from cell cap on;
\* yields the workspace, whether the loop ran to its end, and whether any
\* sum it formed was outside the int range
RECURSIVE DpCells(_, _, _, _)
DpCells(w, i, it, cap) ==
  IF cap >= w.width THEN [ok |-> TRUE, ws |-> w, ovf |-> FALSE]
  ELSE
    LET wt   == ToSizeT(it.weight)
        from == CandidateBase(w, cap, wt)
        add  == add_int_no_overflow(from, it.value)
        exactOut == (from + it.value > INT_MAX) \/ (from + it.value < INT_MIN)
    IN
      IF ~add.ok THEN [ok |-> FALSE, ws |-> w, ovf |-> exactOut]
      ELSE
        LET candidate_val    == add.out
            candidate_weight == CandidateWeight(w, cap, wt)
            current_val      == w.curr_value[cap]
            current_weight   == w.curr_weight[cap]
            w2 == IF Improves(candidate_val, candidate_weight, current_val, current_weight)
                  THEN [w EXCEPT !.curr_value[cap] = candidate_val,
                                 !.curr_weight[cap] = candidate_weight,
                                 !.take[i * w.width + cap] = 1]
                  ELSE w
            rest == DpCells(w2, i, it, cap + 1)
        IN [ok |-> rest.ok, ws |-> rest.ws, ovf |-> exactOut \/ rest.ovf]

\* the row swap at the end of an outer iteration of run_dp
SwapRows(w) ==
  [w EXCEPT !.prev_value = w.curr_value, !.curr_value = w.prev_value,
            !.prev_weight = w.curr_weight, !.curr_weight = w.prev_weight]

\* one outer iteration of run_dp
DpRow(w, i, it) ==
  LET r == DpCells(copy_row(w), i, it, ToSizeT(it.weight)) IN
    IF r.ok THEN [ok |-> TRUE, ws |-> SwapRows(r.ws), ovf |-> r.ovf]
    ELSE r

\* variant of ScanBest: a cell that merely equals the best so far replaces it
RECURSIVE ScanBestLast(_, _, _)
ScanBestLast(w, cap, best) ==
  IF cap >= w.width THEN best
  ELSE
    LET val == w.prev_value[cap]
        weight_at_cap == w.prev_weight[cap]
    IN IF val > w.prev_value[best]
          \/ (val = w.prev_value[best] /\ weight_at_cap <= w.prev_weight[best])
       THEN ScanBestLast(w, cap + 1, cap)
       ELSE ScanBestLast(w, cap + 1, best)

\* select_best_cap: the scan from cell cap on, with the best so far
RECURSIVE ScanBest(_, _, _)
ScanBest(w, cap, best) ==
  IF cap >= w.width THEN best
  ELSE
    LET val == w.prev_value[cap]
        weight_at_cap == w.prev_weight[cap]
    IN IF val > w.prev_value[best]
          \/ (val = w.prev_value[best] /\ weight_at_cap < w.prev_weight[best])
       THEN ScanBest(w, cap + 1, cap)
       ELSE ScanBest(w, cap + 1, best)

\* variant of select_best_cap: the terminal cell is fixed at c = capacity
select_capacity_cell(w) == w.width - 1

\* select_best_cap: best_cap, best_val, best_weight start at cell 0
select_best_cap(w) == ScanBest(w, 1, 0)

\* variant of NextCell: the cell is not moved after an item is taken
NextCellUnmoved(cap, weight) == cap

\* cap -= (size_t)items[i].weight in reconstruct_solution
NextCell(cap, weight) == SizeSub(cap, ToSizeT(weight))

\* one backtracking pass of reconstruct_solution: items n-1 down to 0 from
\* cell cap; sel collects the taken items in the order they are met,
\* cells the cell looked at for each item, oob whether a read of take fell
\* outside the array
RECURSIVE Backtrack(_, _, _, _)
Backtrack(w, its, n, cap) ==
  IF n = 0 THEN [sel |-> << >>, cells |-> << >>, cap |-> cap, oob |-> FALSE]
  ELSE
    LET i   == n - 1
        idx == i * w.width + cap
    IN
      IF idx \notin DOMAIN w.take
      THEN [sel |-> << >>, cells |-> << cap >>, cap |-> cap, oob |-> TRUE]
      ELSE IF w.take[idx] # 0
      THEN LET rest == Backtrack(w, its, i, NextCell(cap, its[i].weight))
           IN [sel |-> << i >> \o rest.sel, cells |-> << cap >> \o rest.cells,
               cap |-> rest.cap, oob |-> rest.oob]
      ELSE LET rest == Backtrack(w, its, i, cap)
           IN [sel |-> rest.sel, cells |-> << cap >> \o rest.cells,
               cap |-> rest.cap, oob |-> rest.oob]

\* variant of ReportedValue: the value is read from the other value row
ReportedValueOtherRow(w, best) == w.curr_value[best]

\* the value reconstruct_solution reports: prev_value[best_cap]
ReportedValue(w, best) == w.prev_value[best]

\* the second pass fills indices[--write] while i runs downwards
FillIndices(sel) == [k \in 1 .. Len(sel) |-> sel[Len(sel) + 1 - k]]

\* variant of SortAsc: the comparator's sign is reversed
RECURSIVE SortDesc(_)
SortDesc(s) ==
  IF Len(s) <= 1 THEN s
  ELSE LET k == CHOOSE k \in 1 .. Len(s) : \A j \in 1 .. Len(s) : s[k] >= s[j]
           rest == [j \in 1 .. Len(s) - 1 |-> IF j < k THEN s[j] ELSE s[j + 1]]
       IN << s[k] >> \o SortDesc(rest)

\* qsort with compare_size_t: the ascending arrangement of the array
RECURSIVE SortAsc(_)
SortAsc(s) ==
  IF Len(s) <= 1 THEN s
  ELSE LET k == CHOOSE k \in 1 .. Len(s) : \A j \in 1 .. Len(s) : s[k] <= s[j]
           rest == [j \in 1 .. Len(s) - 1 |-> IF j < k THEN s[j] ELSE s[j + 1]]
       IN << s[k] >> \o SortAsc(rest)

\* variant of knapsack_result_free: the pointer is not cleared after free
knapsack_result_free_keeps_pointer(r) == [r EXCEPT !.selected_count = 0, !.optimal_value = 0]

\* knapsack_result_free: the struct after the call on a non-null result
knapsack_result_free(r) ==
  [r EXCEPT !.selected_indices = NULL, !.selected_count = 0, !.optimal_value = 0]

\* ---------------------------------------------------------------- Init
WellFormedInputs ==
  /\ itemsNull = FALSE
  /\ count \in 1 .. MaxItems
  /\ items \in [0 .. count - 1 -> ValidItems]
  /\ capacity \in Capacities
  /\ outNull = FALSE

MalformedItemInputs ==
  /\ itemsNull = FALSE
  /\ count \in 1 .. MaxItems
  /\ items \in [0 .. count - 1 -> MixedItems]
  /\ capacity \in Capacities
  /\ outNull = FALSE

EmptyInputs ==
  /\ itemsNull \in BOOLEAN
  /\ count \in {0, 1}
  /\ (itemsNull \/ count = 0)
  /\ items = << >>
  /\ capacity \in {-1, 1}
  /\ outNull = FALSE

TooManyInputs ==
  /\ itemsNull = FALSE
  /\ count = KNAPSACK_MAX_ITEMS + 1
  /\ \E it \in {Item(1, 1), Item(0, 7)} : items = [i \in 0 .. count - 1 |-> it]
  /\ capacity \in {-1, 1}
  /\ outNull = FALSE

NullResultInputs ==
  /\ itemsNull = FALSE
  /\ count = 1
  /\ items = [i \in {0} |-> Item(1, 1)]
  /\ capacity = 1
  /\ outNull = TRUE

Init ==
  /\ \/ WellFormedInputs
     \/ MalformedItemInputs
     \/ EmptyInputs
     \/ TooManyInputs
     \/ NullResultInputs
  /\ result \in PriorResults
  /\ ws = EmptyWorkspace
  /\ status = "KNAPSACK_OK"
  /\ best_cap = 0
  /\ row = 0
  /\ overflowSeen = FALSE
  /\ heap = EmptyHeap
  /\ held = NothingHeld
  /\ freeCalls = 0
  /\ pc = "start"

\* ------------------------------------------------------------- actions

\* knapsack_solve_status up to the workspace initialiser
Enter ==
  /\ pc = "start"
  /\ IF outNull
     THEN /\ status' = "KNAPSACK_ERR_NULL_RESULT"
          /\ pc' = "done"
          /\ UNCHANGED << result, ws >>
     ELSE
       LET input_status == validate_inputs(itemsNull, items, count, capacity)
           width == ToSizeT(capacity) + 1
           take_size == width * count
       IN
         /\ result' = reset_result
         /\ IF input_status # "KNAPSACK_OK"
            THEN /\ status' = input_status
                 /\ pc' = "done"
                 /\ ws' = ws
            ELSE IF (count # 0 /\ width > SIZE_MAX \div count) \/ take_size = 0
            THEN /\ status' = "KNAPSACK_ERR_DIMENSION_OVERFLOW"
                 /\ pc' = "done"
                 /\ ws' = ws
            ELSE /\ status' = status
                 /\ pc' = "alloc"
                 /\ ws' = [EmptyWorkspace EXCEPT !.width = width, !.take_size = take_size]
  /\ UNCHANGED << inputs, best_cap, row, overflowSeen, heap, held, freeCalls >>

\* allocate_workspace and its caller's test; got says which callocs succeed
AllocateWorkspace ==
  /\ pc = "alloc"
  /\ \E got \in [Buffers -> BOOLEAN] :
       LET obtained == [b \in Buffers |-> IF got[b] THEN b ELSE NoBlock] IN
       IF \A b \in Buffers : got[b]
       THEN /\ ws' = [ws EXCEPT !.prev_value = ZeroRow(ws.width),
                                !.curr_value = ZeroRow(ws.width),
                                !.prev_weight = ZeroRow(ws.width),
                                !.curr_weight = ZeroRow(ws.width),
                                !.take = ZeroRow(ws.take_size)]
            /\ heap' = Calloc(heap, got)
            /\ held' = obtained
            /\ status' = "KNAPSACK_OK"
            /\ pc' = "dp"
       ELSE /\ ws' = ws
            /\ heap' = ReleasePartial(Calloc(heap, got), obtained)
            /\ held' = NothingHeld
            /\ status' = "KNAPSACK_ERR_ALLOC"
            /\ pc' = "done"
  /\ row' = 0
  /\ UNCHANGED << inputs, result, best_cap, overflowSeen, freeCalls >>

\* one iteration of the outer loop of run_dp, and the caller's test of
\* dp_ok once the loop has ended
RunDpRow ==
  /\ pc = "dp"
  /\ row < count
  /\ LET r == DpRow(ws, row, items[row]) IN
       /\ ws' = r.ws
       /\ overflowSeen' = (overflowSeen \/ r.ovf)
       /\ IF ~r.ok
          THEN /\ status' = "KNAPSACK_ERR_INT_OVERFLOW"
               /\ pc' = "free"
               /\ row' = row
               /\ held' = held
          ELSE /\ status' = status
               /\ row' = row + 1
               /\ pc' = IF row + 1 < count THEN "dp" ELSE "select"
               /\ held' = SwapHeld(held)
  /\ UNCHANGED << inputs, result, best_cap, heap, freeCalls >>

\* select_best_cap
SelectBestCap ==
  /\ pc = "select"
  /\ best_cap' = select_best_cap(ws)
  /\ pc' = "rebuild"
  /\ UNCHANGED << inputs, result, ws, status, row, overflowSeen, heap, held, freeCalls >>

\* what a read outside the take array may leave in *out_result
UndefinedResults ==
  PriorResults \cup
  { [optimal_value |-> ReportedValue(ws, best_cap), selected_count |-> 1,
     selected_indices |-> << 0 >>] }

\* reconstruct_solution and the caller's test of rebuild_ok
ReconstructSolution ==
  /\ pc = "rebuild"
  /\ LET pass   == Backtrack(ws, items, count, ToSizeT(best_cap))
         second == Backtrack(ws, items, count, ToSizeT(best_cap))
         selected == Len(pass.sel)
     IN
       IF pass.oob
       THEN /\ result' \in UndefinedResults
            /\ status' \in {"KNAPSACK_OK", "KNAPSACK_ERR_ALLOC"}
            /\ heap' \in {heap, [heap EXCEPT !.live = @ \cup {IndexBlock}]}
       ELSE IF selected = 0
       THEN /\ result' = [result EXCEPT !.optimal_value = ReportedValue(ws, best_cap)]
            /\ status' = status
            /\ heap' = heap
       ELSE \E malloc_ok \in BOOLEAN :
              IF ~malloc_ok
              THEN /\ result' = result
                   /\ status' = "KNAPSACK_ERR_ALLOC"
                   /\ heap' = heap
              ELSE /\ result' = [optimal_value |-> ReportedValue(ws, best_cap),
                                 selected_indices |-> SortAsc(FillIndices(second.sel)),
                                 selected_count |-> selected]
                   /\ status' = status
                   /\ heap' = [heap EXCEPT !.live = @ \cup {IndexBlock}]
  /\ pc' = "free"
  /\ UNCHANGED << inputs, ws, best_cap, row, overflowSeen, held, freeCalls >>

\* free_workspace and the return
FreeWorkspace ==
  /\ pc = "free"
  /\ ws' = [ws EXCEPT !.prev_value = NULL, !.curr_value = NULL,
                      !.prev_weight = NULL, !.curr_weight = NULL, !.take = NULL]
  /\ heap' = free_workspace_blocks(heap, held)
  /\ held' = NothingHeld
  /\ pc' = "done"
  /\ UNCHANGED << inputs, result, status, best_cap, row, overflowSeen, freeCalls >>

\* the caller calls knapsack_result_free on the result of a successful
\* solve, once more each time
ResultFree ==
  /\ pc \in {"done", "released"}
  /\ status = "KNAPSACK_OK"
  /\ ~outNull
  /\ freeCalls < MaxFreeCalls
  /\ heap' = Free(heap, IF result.selected_indices = NULL THEN NoBlock ELSE IndexBlock)
  /\ result' = knapsack_result_free(result)
  /\ freeCalls' = freeCalls + 1
  /\ pc' = "released"
  /\ UNCHANGED << inputs, ws, status, best_cap, row, overflowSeen, held >>

Next ==
  \/ Enter
  \/ AllocateWorkspace
  \/ RunDpRow
  \/ SelectBestCap
  \/ ReconstructSolution
  \/ FreeWorkspace
  \/ ResultFree

Spec == Init /\ [][Next]_vars

\* the call has returned to the caller
Returned == pc = "done"

\* knapsack_solve returned true
Succeeded == Returned /\ status = "KNAPSACK_OK"

TypeOK ==
  /\ status \in StatusCodes
  /\ pc \in {"start", "alloc", "dp", "select", "rebuild", "free", "done", "released"}
  /\ freeCalls \in 0 .. MaxFreeCalls
  /\ heap.live \subseteq Blocks
  /\ row \in 0 .. MaxItems
  /\ overflowSeen \in BOOLEAN

\* ------------------------------------------------ reference definitions
\* (brute-force notions the properties are stated against)

Indices == 0 .. count - 1

RECURSIVE SumWeight(_)
SumWeight(S) ==
  IF S = {} THEN 0
  ELSE LET i == CHOOSE i \in S : TRUE IN items[i].weight + SumWeight(S \ {i})

RECURSIVE SumValue(_)
SumValue(S) ==
  IF S = {} THEN 0
  ELSE LET i == CHOOSE i \in S : TRUE IN items[i].value + SumValue(S \ {i})

\* the subsets brute_force_optimal (knapsack_test.cpp) considers
Feasible(S) == SumWeight(S) <= capacity

FeasibleSubsets == { S \in SUBSET Indices : Feasible(S) }

\* brute_force_optimal, in unbounded integers
BruteForceOptimal ==
  CHOOSE v \in { SumValue(S) : S \in FeasibleSubsets } :
    \A S \in FeasibleSubsets : SumValue(S) <= v

\* selected_indices[0 .. selected_count), as a sequence and as a set
SelectedSeq ==
  IF result.selected_indices = NULL THEN << >>
  ELSE SubSeq(result.selected_indices, 1, result.selected_count)

Selection == { SelectedSeq[k] : k \in 1 .. Len(SelectedSeq) }

\* ------------------------------------------------------------ properties

\* C1 (exactness): whenever the solve succeeds, optimal_value is the
\* maximum total value over all subsets of the items whose total weight is
\* at most capacity.
Exactness == Succeeded => result.optimal_value = BruteForceOptimal

\* a success where the optimum needs several items, a lesser feasible
\* choice exists and some subset does not fit
ExactnessWitness ==
  /\ Succeeded
  /\ result.selected_count >= 2
  /\ \E S \in FeasibleSubsets : S # {} /\ SumValue(S) < result.optimal_value
  /\ \E S \in SUBSET Indices : ~Feasible(S)

\* C2 (feasibility): whenever the solve succeeds, every selected index is
\* below count and the selected items' weights sum to at most capacity.
Feasibility ==
  Succeeded =>
    /\ \A k \in 1 .. Len(SelectedSeq) : SelectedSeq[k] \in Nat /\ SelectedSeq[k] < count
    /\ SumWeight(Selection) <= capacity

\* a success that selects something while not everything fits
FeasibilityWitness ==
  /\ Succeeded
  /\ result.selected_count >= 1
  /\ SumWeight(Indices) > capacity

\* C3 (tie-break): whenever the solve succeeds, no subset that fits and has
\* total value optimal_value is lighter than the returned selection.
TieBreak ==
  Succeeded =>
    \A S \in FeasibleSubsets :
      SumValue(S) = result.optimal_value => SumWeight(Selection) <= SumWeight(S)

\* a success where a strictly heavier subset that fits reaches the same
\* value as the returned, non-empty selection
TieBreakWitness ==
  /\ Succeeded
  /\ result.selected_count >= 1
  /\ \E S \in FeasibleSubsets :
       /\ SumValue(S) = result.optimal_value
       /\ SumWeight(S) > SumWeight(Selection)

\* C4: whenever the solve succeeds, optimal_value is the exact sum of the
\* values of the selected items, and it is the value of the empty subset
\* when nothing is selected.
ValueMatchesSelection ==
  Succeeded =>
    /\ result.optimal_value = SumValue(Selection)
    /\ result.selected_count = 0 => result.optimal_value = 0

\* a success with a non-empty selection of positive value
ValueMatchesSelectionWitness ==
  /\ Succeeded
  /\ result.selected_count >= 2
  /\ result.optimal_value > 0

\* C5 (ordering): whenever the solve succeeds, selected_indices is strictly
\* ascending.
Ordering ==
  Succeeded =>
    \A k \in 1 .. Len(SelectedSeq) - 1 : SelectedSeq[k] < SelectedSeq[k + 1]

\* a success with at least two selected indices
OrderingWitness ==
  /\ Succeeded
  /\ result.selected_count >= 2
  /\ Len(SelectedSeq) = result.selected_count

\* C6 (no partial result): whenever the call returns a status other than
\* KNAPSACK_OK and out_result is not NULL, *out_result is zeroed.
NoPartialResult ==
  (Returned /\ ~outNull /\ status # "KNAPSACK_OK") => result = EmptyResult

\* the index buffer could not be allocated after a successful DP phase
NoPartialResultWitness ==
  /\ Returned
  /\ status = "KNAPSACK_ERR_ALLOC"
  /\ row = count
  /\ ~outNull
  /\ result = EmptyResult

\* a well-formed instance whose items all have positive weight and negative
\* value
AllNegative ==
  /\ ~itemsNull
  /\ count \in 1 .. KNAPSACK_MAX_ITEMS
  /\ capacity \in 0 .. KNAPSACK_MAX_CAPACITY
  /\ \A i \in Indices : items[i].weight > 0 /\ items[i].value < 0

\* C7: an instance whose items all have positive weight and negative value
\* is accepted by validation, and its solve succeeds only with
\* optimal_value 0 and an empty selection.
NegativeValuesAccepted ==
  (Returned /\ ~outNull /\ AllNegative) =>
    /\ status \notin { "KNAPSACK_ERR_INVALID_ITEMS", "KNAPSACK_ERR_TOO_MANY_ITEMS",
                       "KNAPSACK_ERR_INVALID_CAPACITY" }
    /\ status = "KNAPSACK_OK" => result = EmptyResult

\* the validation rules in the order the specification lists them
ListedValidation ==
  IF itemsNull \/ count = 0 THEN "KNAPSACK_ERR_INVALID_ITEMS"
  ELSE IF count > KNAPSACK_MAX_ITEMS THEN "KNAPSACK_ERR_TOO_MANY_ITEMS"
  ELSE IF capacity < 0 \/ capacity > KNAPSACK_MAX_CAPACITY
       THEN "KNAPSACK_ERR_INVALID_CAPACITY"
  ELSE IF \E i \in Indices : items[i].weight <= 0 THEN "KNAPSACK_ERR_INVALID_ITEMS"
  ELSE "KNAPSACK_OK"

ValidationErrors ==
  { "KNAPSACK_ERR_INVALID_ITEMS", "KNAPSACK_ERR_TOO_MANY_ITEMS",
    "KNAPSACK_ERR_INVALID_CAPACITY" }

\* C8: the call reports the first violated rule of the listed order, and an
\* input violating none of the listed rules is not rejected by validation.
ValidationOrder ==
  (Returned /\ ~outNull) =>
    IF ListedValidation # "KNAPSACK_OK"
    THEN status = ListedValidation
    ELSE status \notin ValidationErrors

\* the instances of the fuzz test: weights in 0..5, values in -5..10
ZeroWeightInstance ==
  /\ ~itemsNull
  /\ count \in 1 .. KNAPSACK_MAX_ITEMS
  /\ capacity \in 0 .. KNAPSACK_MAX_CAPACITY
  /\ \A i \in Indices : items[i].weight \in 0 .. 5 /\ items[i].value \in -5 .. 10

\* C9: items of weight 0 are accepted: an instance with weights in 0..5 and
\* values in -5..10 is not rejected by validation, and the single item (0,7)
\* at capacity 0 is solved with optimal_value 7 and selected index 0.

ZeroWeightAccepted ==
  (Returned /\ ~outNull /\ ZeroWeightInstance) =>
    /\ status \notin ValidationErrors
    /\ (status = "KNAPSACK_OK" /\ count = 1 /\ capacity = 0 /\ items[0] = Item(0, 7))
         => (result.optimal_value = 7 /\ SelectedSeq = << 0 >>)

\* the items a cell of the newest DP row stands for: the items the take
\* matrix marks on the way back from that cell through the rows filled so far
CellItems(c) ==
  LET pass == Backtrack(ws, items, row, c) IN
    { pass.sel[k] : k \in 1 .. Len(pass.sel) }

\* C10 (overflow is fatal, never wrapped): once a sum formed by the DP has
\* left the int range the solve ends with KNAPSACK_ERR_INT_OVERFLOW and a
\* zeroed result; and while the DP of a solve is under way or has succeeded,
\* every value in the newest row is the exact sum of the values of the items
\* the cell stands for.
OverflowIsFatal ==
  /\ overflowSeen =>
       /\ status = "KNAPSACK_ERR_INT_OVERFLOW"
       /\ result = EmptyResult
       /\ pc \in {"free", "done"}
  /\ pc \in {"dp", "select", "rebuild"} =>
       \A c \in 0 .. ws.width - 1 : ws.prev_value[c] = SumValue(CellItems(c))

\* the solve of (1,INT_MAX),(1,1) at capacity 2 has returned
OverflowIsFatalWitness ==
  /\ Returned
  /\ overflowSeen
  /\ count = 2
  /\ items[0] = Item(1, INT_MAX)
  /\ items[1] = Item(1, 1)
  /\ capacity = 2
  /\ status = "KNAPSACK_ERR_INT_OVERFLOW"

\* C11 (workspace release on every path): once knapsack_solve_status has
\* returned, no workspace buffer is allocated, as many workspace buffers
\* have been freed as were obtained, and no buffer was freed twice.
WorkspaceReleased ==
  pc \in {"done", "released"} =>
    /\ heap.live \cap Buffers = {}
    /\ heap.ws_released = heap.ws_obtained
    /\ ~heap.double_free

\* the call returned after some, but not all, workspace allocations succeeded
WorkspaceReleasedWitness ==
  /\ Returned
  /\ status = "KNAPSACK_ERR_ALLOC"
  /\ heap.ws_obtained \in 1 .. 4
  /\ heap.ws_released = heap.ws_obtained

\* C12 (release is idempotent): every call of knapsack_result_free after a
\* successful solve leaves the result zeroed and the index buffer not
\* allocated, without a double free; the first call frees the index buffer
\* if there is one, and a call on an already-empty result changes neither
\* the result nor the heap.
ReleaseIdempotent ==
  [][ freeCalls' = freeCalls + 1 =>
        /\ result' = EmptyResult
        /\ IndexBlock \notin heap'.live
        /\ ~heap'.double_free
        /\ heap'.idx_released <= 1
        /\ (freeCalls = 0 /\ result.selected_count > 0) => heap'.idx_released = 1
        /\ IndexBlock \in heap.live => heap'.idx_released = 1
        /\ result = EmptyResult => (result' = result /\ heap' = heap)
    ]_vars

\* knapsack_result_free was called twice on a result that had an index
\* buffer
ReleaseIdempotentWitness ==
  /\ pc = "released"
  /\ freeCalls >= 2
  /\ heap.idx_released = 1
  /\ result = EmptyResult

\* the (value, accumulated weight) pair of a cell of the final DP row
CellValue(c) == ws.prev_value[c]

CellWeight(c) == ws.prev_weight[c]

\* C13 (selector): the cell select_best_cap returns lies in 0..capacity, no
\* cell has a greater value, no cell of equal value has a smaller weight,
\* and no cell of smaller index has the same value and weight.
SelectorPicksFirstBest ==
  pc = "rebuild" =>
    /\ best_cap \in 0 .. capacity
    /\ \A c \in 0 .. capacity :
         /\ CellValue(c) <= CellValue(best_cap)
         /\ CellValue(c) = CellValue(best_cap) => CellWeight(c) >= CellWeight(best_cap)
         /\ (CellValue(c) = CellValue(best_cap) /\ CellWeight(c) = CellWeight(best_cap))
              => c >= best_cap

\* the selector returned an inner cell although the capacity cell holds the
\* same pair, and cell 0 holds a lesser value
SelectorPicksFirstBestWitness ==
  /\ pc = "rebuild"
  /\ best_cap > 0
  /\ best_cap < capacity
  /\ CellValue(capacity) = CellValue(best_cap)
  /\ CellWeight(capacity) = CellWeight(best_cap)
  /\ CellValue(0) < CellValue(best_cap)

\* the workspace allocation of a validated call succeeded, so the DP ran
DpRan ==
  /\ ~outNull
  /\ validate_inputs(itemsNull, items, count, capacity) = "KNAPSACK_OK"
  /\ heap.ws_obtained = Cardinality(Buffers)

\* C14 as stated: for inputs that pass validation the returned status is
\* KNAPSACK_ERR_INT_OVERFLOW exactly if the true optimum exceeds INT_MAX.
OverflowIffOptimumTooLarge ==
  (Returned /\ ~outNull
     /\ validate_inputs(itemsNull, items, count, capacity) = "KNAPSACK_OK") =>
    ((status = "KNAPSACK_ERR_INT_OVERFLOW") <=> (BruteForceOptimal > INT_MAX))

\* C14 as amended: for inputs that pass validation and whose workspace
\* allocation succeeds, the returned status is KNAPSACK_ERR_INT_OVERFLOW
\* exactly if the true optimum exceeds INT_MAX.
OverflowIffOptimumTooLargeOnceAllocated ==
  (Returned /\ DpRan) =>
    ((status = "KNAPSACK_ERR_INT_OVERFLOW") <=> (BruteForceOptimal > INT_MAX))

\* a solve of several items succeeded with an optimum of exactly INT_MAX
\* although the items together are worth more than INT_MAX
OverflowIffOptimumTooLargeWitness ==
  /\ Succeeded
  /\ DpRan
  /\ count >= 2
  /\ result.optimal_value = INT_MAX
  /\ SumValue(Indices) > INT_MAX

\* reconstruct_solution has run (the DP and the selector succeeded) and the
\* workspace has not been freed yet
Reconstructed == pc = "free" /\ row = count /\ status # "KNAPSACK_ERR_INT_OVERFLOW"

\* C15 (backtracking stays inside the matrix): in the backtracking pass
\* from the selected cell, every cell looked at lies in 0..capacity, every
\* matrix index is below count * width, a taken item is never heavier than
\* the current cell, the cell is 0 after the last item, and the selected
\* cell is the total weight of the selected items.
BacktrackStaysInside ==
  Reconstructed =>
    LET pass == Backtrack(ws, items, count, ToSizeT(best_cap)) IN
      /\ ~pass.oob
      /\ Len(pass.cells) = count
      /\ \A k \in 1 .. Len(pass.cells) :
           LET i    == count - k
               cell == pass.cells[k]
               idx  == i * ws.width + cell
           IN /\ cell \in 0 .. capacity
              /\ idx < count * ws.width
              /\ ws.take[idx] # 0 => items[i].weight <= cell
      /\ pass.cap = 0
      /\ best_cap = SumWeight({ pass.sel[k] : k \in 1 .. Len(pass.sel) })

\* two items were taken on the way back from a cell below the capacity cell
BacktrackStaysInsideWitness ==
  /\ Reconstructed
  /\ status = "KNAPSACK_OK"
  /\ result.selected_count >= 2
  /\ best_cap < capacity
  /\ best_cap = SumWeight(Selection)
====
